---- MODULE Spec2Model ----
(***************************************************************************)
(* State-management core of the style editor (src/components/App.jsx):    *)
(* the mutation pipeline (onStyleChanged), the undo/redo handlers, the     *)
(* layer-list handlers, the source reconciler (fetchSources), the glyph    *)
(* and sprite metadata downloads and the keyboard listeners.               *)
(*                                                                         *)
(* Indices are 0-based as in the JavaScript source; the i-th element of a  *)
(* JavaScript array a is a[i + 1] here.                                    *)
(*                                                                         *)
(* React's setState is modelled as the source relies on it: outside a      *)
(* batched update a setState call replaces this.state at once; inside a    *)
(* batched update (an event React dispatches) the patches are merged into  *)
(* a pending patch and this.state keeps its old value until the batch      *)
(* ends.  Instance fields (revisionStore, styleStore) are never deferred.  *)
(***************************************************************************)
EXTENDS Integers, Sequences, FiniteSets, TLC

\* ------------------------------------------------------------------ bounds
MaxLayers == 3
MaxRevisions == 3
MaxBatch == 2
MaxIdLen == 6
MaxDownloads == 2

\* ------------------------------------------------------- generic helpers
\* {...p, ...q} / Object.assign({}, p, q): q's keys override p's.
Merge(p, q) ==
  [f \in (DOMAIN p) \cup (DOMAIN q) |-> IF f \in DOMAIN q THEN q[f] ELSE p[f]]

\* An object without keys: {} (also the "no setState call" patch).
EmptyObject == [f \in {} |-> 0]

\* array.splice(i, 1) on a copy: the array without its element at index i.
RemoveAt(s, i) ==
  [k \in 1..(Len(s) - 1) |-> IF k <= i THEN s[k] ELSE s[k + 1]]

\* array.splice(i, 0, e) on a copy: e inserted so that it gets index i.
InsertAt(s, i, e) ==
  [k \in 1..(Len(s) + 1) |-> IF k <= i THEN s[k]
                             ELSE IF k = i + 1 THEN e ELSE s[k - 1]]

\* array[i] = e on a copy.
ReplaceAt(s, i, e) == [s EXCEPT ![i + 1] = e]

\* ----------------------------------------------------------- documents
\* style.emptyStyle: the document the component is constructed with.
emptyStyle == [version |-> 8, sources |-> EmptyObject, layers |-> <<>>]

VectorSource == [type |-> "vector", url |-> "https://x/tiles.json"]
GeoJsonSource == [type |-> "geojson"]

SourcesNone == EmptyObject
SourcesOne == [s1 |-> VectorSource]
SourcesTwo == [s1 |-> VectorSource, s2 |-> GeoJsonSource]

\* The four shapes of a layer's layout the visibility toggle distinguishes.
PlainLayer(id) == [id |-> id]
EmptyLayoutLayer(id) == [id |-> id, layout |-> EmptyObject]
VisibleLayer(id) == [id |-> id, layout |-> [visibility |-> "visible"]]
HiddenLayer(id) == [id |-> id, layout |-> [visibility |-> "none"]]

LayerIds(layers) == {layers[k].id : k \in 1..Len(layers)}

\* styleSpec.validate(newStyle, styleSpec.latest): the list of errors.
\* Two rules of the schema are modelled: the version must be 8 and no two
\* layers may share an id.
validate(newStyle) ==
  (IF newStyle.version # 8 THEN <<[message |-> "version: expected one of [8]"]>>
   ELSE <<>>)
  \o
  (IF \E i, j \in 1..Len(newStyle.layers) :
        i < j /\ newStyle.layers[i].id = newStyle.layers[j].id
   THEN <<[message |-> "layers: duplicate layer id"]>>
   ELSE <<>>)

\* errors.map(err => err.message)
ErrorMessages(errors) == [k \in 1..Len(errors) |-> errors[k].message]

\* ------------------------------------------------------------- schema
\* The fields of the schema's $root the metadata downloads write to.
RootFields == {"glyphs", "sprite"}

\* styleSpec.latest, as far as updateRootSpec reads it: $root.glyphs and
\* $root.sprite, neither with a values list.
latest ==
  [root |-> [glyphs |-> [type |-> "string"], sprite |-> [type |-> "string"]]]

\* updateRootSpec(spec, fieldName, newValues)
updateRootSpec(spec, fieldName, newValues) ==
  Merge(spec,
        [root |-> Merge(spec.root,
                        [f \in {fieldName} |->
                           Merge(spec.root[fieldName],
                                 [values |-> newValues])])])

\* ------------------------------------------------------------ variables
VARIABLES
  state,        \* this.state: mapStyle, errors, selectedLayerIndex, sources,
                \* inspectModeEnabled, isOpen, spec
  pending,      \* the patch of the setState calls of the running batch
  inBatch,      \* TRUE while React runs a batched update
  batchCalls,   \* handler calls made in the running batch
  revisions,    \* revisionStore.revisions
  currentIdx,   \* revisionStore.currentIdx (-1 while the store is empty)
  saved,        \* the document last handed to styleStore.save
  inFlight,     \* source key -> number of fetches issued and not settled
  issued,       \* source key -> number of fetches issued so far
  trail,        \* history of the last handler calls (see Trail below)
  downloads,    \* "glyphs" / "sprite" -> metadata downloads not yet completed
  focus,        \* document.activeElement: "body", "input" or "canvas"
  outcomes      \* source key -> how its fetches have ended so far: "merged"
                \* (names pushed), "stale" (merged while the committed
                \* document did not declare the key), "empty" (failed, or a
                \* body without vector_layers)

vars == <<state, pending, inBatch, batchCalls, revisions, currentIdx, saved,
          inFlight, issued, trail, downloads, focus, outcomes>>

SourceKeys == {"s1", "s2"}
\* The value of saved before the first save.
NoSave == [none |-> "saved"]

\* What this.state becomes once the pending patch is applied.
Effective == Merge(state, pending)

\* ----------------------------------------------------- RevisionStore
Store == [revisions |-> revisions, currentIdx |-> currentIdx]

\* revisionStore.current
Current(store) == store.revisions[store.currentIdx + 1]

\* addRevision(doc): doc becomes the head, the redo-forward part is dropped.
addRevision(store, doc) ==
  [revisions |-> SubSeq(store.revisions, 1, store.currentIdx + 1) \o <<doc>>,
   currentIdx |-> store.currentIdx + 1]

\* undo(): one step back when the cursor has a predecessor.
undo(store) ==
  IF store.currentIdx > 0
  THEN [store EXCEPT !.currentIdx = store.currentIdx - 1]
  ELSE store

\* redo(): one step forward when the cursor has a successor.
redo(store) ==
  IF store.currentIdx < Len(store.revisions) - 1
  THEN [store EXCEPT !.currentIdx = store.currentIdx + 1]
  ELSE store

\* ------------------------------------------------------- setState
\* A handler's run: st is what reads of this.state see, patch collects the
\* setState calls, fetches the source keys a fetch was issued for.
Begin(st) == [st |-> st, patch |-> EmptyObject, fetches |-> {}]

\* this.setState(p)
SetState(run, p, sync) ==
  [run EXCEPT !.st = IF sync THEN Merge(run.st, p) ELSE run.st,
              !.patch = Merge(run.patch, p)]

\* ------------------------------------------------------- fetchSources
\* sourceList[key] = {type: val.type, layers: []}
PendingDescriptor(val) == [type |-> val.type, layers |-> <<>>]

\* The keys of the document the loop does not skip with `continue`.
UnknownKeys(st) == (DOMAIN st.mapStyle.sources) \ (DOMAIN st.sources)

\* The condition under which the loop issues a fetch for a key.
NeedsFetch(st, key) ==
  /\ key \notin DOMAIN st.sources
  /\ st.mapStyle.sources[key].type = "vector"
  /\ "url" \in DOMAIN st.mapStyle.sources[key]

\* A sourceList built from the document's sources alone, not from a copy
\* of this.state.sources.
SourceListOfDocument(st) ==
  [key \in DOMAIN st.mapStyle.sources |->
     IF key \in DOMAIN st.sources THEN st.sources[key]
     ELSE PendingDescriptor(st.mapStyle.sources[key])]

\* sourceList after the loop.
SourceList(st) ==
  [key \in (DOMAIN st.sources) \cup UnknownKeys(st) |->
     IF key \in DOMAIN st.sources THEN st.sources[key]
     ELSE PendingDescriptor(st.mapStyle.sources[key])]

\* A reconciler that remembers the keys it has fetched.
FetchKeysOnce(st) == {key \in UnknownKeys(st) : NeedsFetch(st, key) /\ issued[key] = 0}

\* The keys fetchSources issues a fetch for.
FetchKeys(st) == {key \in UnknownKeys(st) : NeedsFetch(st, key)}

\* A reconciler that replaces this.state.sources on every call.
SourcesDifferAlways(sources, sourceList) == TRUE

\* !isEqual(this.state.sources, sourceList)
SourcesDiffer(sources, sourceList) == sources # sourceList

fetchSources(run, sync) ==
  LET st == run.st
      sourceList == SourceList(st)
      withFetches == [run EXCEPT !.fetches = FetchKeys(st)]
  IN IF SourcesDiffer(st.sources, sourceList)
     THEN SetState(withFetches, [sources |-> sourceList], sync)
     ELSE withFetches

\* ------------------------------------------------------- onStyleChanged
\* A pipeline that commits whatever the validator reports.
IsAcceptedAlways(errors) == TRUE

\* errors.length === 0
IsAccepted(errors) == Len(errors) = 0

\* A commit that forgets the addRevision call.
RecordRevisionSkipped(store, newStyle) == store

\* this.revisionStore.addRevision(newStyle)
RecordRevision(store, newStyle) == addRevision(store, newStyle)

\* A pipeline that puts the candidate in this.state whatever the verdict.
StyleChangedRunUnchecked(run, newStyle, sync) ==
  fetchSources(SetState(run, [mapStyle |-> newStyle,
                              errors |-> ErrorMessages(validate(newStyle))],
                        sync), sync)

\* The setState calls of onStyleChanged(newStyle, save), up to and including
\* fetchSources.  The glyph and sprite downloads it starts are in Pipeline.
StyleChangedRun(run, newStyle, sync) ==
  LET errors == validate(newStyle)
  IN IF IsAccepted(errors)
     THEN fetchSources(SetState(run, [mapStyle |-> newStyle,
                                      errors |-> <<>>], sync), sync)
     ELSE fetchSources(SetState(run, [errors |-> ErrorMessages(errors)],
                                sync), sync)

\* ------------------------------------------------------------- Trail
\* trail observes the handler calls: it holds the last call with its
\* arguments and, for the pairs "accepted submit or redo, then undo or redo"
\* and "visibility toggle, then the same toggle", the call before it, with
\* the committed document and the store as they were before that call.
NoRevision == [none |-> "revision"]

Snapshot ==
  [before |-> Effective.mapStyle,
   cursor |-> IF currentIdx >= 0 THEN Current(Store) ELSE NoRevision,
   head |-> currentIdx = Len(revisions) - 1]

Called(call) == <<call>>

AfterSubmit(newStyle, save) ==
  IF Len(validate(newStyle)) = 0
  THEN <<Merge(Snapshot, [op |-> "submit", doc |-> newStyle, save |-> save])>>
  ELSE <<[op |-> "submit", doc |-> newStyle, save |-> save]>>

AfterUndo ==
  IF Len(trail) = 1 /\ trail[1].op \in {"submit", "redo"} /\ trail[1].valid
  THEN <<trail[1], [op |-> "undo"]>>
  ELSE <<[op |-> "undo"]>>

AfterRedo ==
  IF Len(trail) = 1 /\ trail[1].op = "submit" /\ trail[1].valid
  THEN <<trail[1], [op |-> "redo"]>>
  ELSE <<Merge(Snapshot, [op |-> "redo"])>>

AfterToggle(layerId, layer) ==
  IF Len(trail) = 1 /\ trail[1].op = "toggle" /\ trail[1].layerId = layerId
     /\ trail[1].valid
  THEN <<trail[1], [op |-> "toggle", layerId |-> layerId]>>
  ELSE <<[op |-> "toggle", layerId |-> layerId, layer |-> layer]>>

\* The last call of the trail, marked with the validator's verdict on the
\* candidate the call submitted (TRUE for a call that submits nothing) and
\* with the number of styleStore.save calls it made.
Marked(calls, valid, saves) ==
  [calls EXCEPT ![Len(calls)] =
     Merge(calls[Len(calls)], [valid |-> valid, saves |-> saves])]

\* ----------------------------------------------------------- handlers
\* A handler can be called outside a batch, or inside one that has room.
CanCall == (~inBatch) \/ batchCalls < MaxBatch

\* The end of a handler's run: its patch reaches this.state (or the pending
\* patch), the store and the fetches it issued are recorded.
Finish(run, store, calls) ==
  /\ IF inBatch
     THEN /\ pending' = Merge(pending, run.patch)
          /\ state' = state
          /\ batchCalls' = batchCalls + 1
     ELSE /\ state' = Merge(state, run.patch)
          /\ pending' = pending
          /\ batchCalls' = batchCalls
  /\ inBatch' = inBatch
  /\ revisions' = store.revisions
  /\ currentIdx' = store.currentIdx
  /\ inFlight' = [key \in SourceKeys |->
                    inFlight[key] + (IF key \in run.fetches THEN 1 ELSE 0)]
  /\ issued' = [key \in SourceKeys |->
                  issued[key] + (IF key \in run.fetches THEN 1 ELSE 0)]
  /\ trail' = calls
  /\ focus' = focus
  /\ outcomes' = outcomes

\* A saveStyle that hands nothing to the store.
saveStyleDropped(snapshotStyle) == UNCHANGED saved

\* this.saveStyle(snapshotStyle)
saveStyle(snapshotStyle) == saved' = snapshotStyle

NoSaveStyle == UNCHANGED saved

\* newStyle.glyphs !== this.state.mapStyle.glyphs (and the same for sprite):
\* a missing field reads undefined.
FieldChanged(newStyle, mapStyle, field) ==
  IF field \in DOMAIN newStyle /\ field \in DOMAIN mapStyle
  THEN newStyle[field] # mapStyle[field]
  ELSE (field \in DOMAIN newStyle) # (field \in DOMAIN mapStyle)

\* The downloads an accepted submit starts: updateFonts for glyphs,
\* updateIcons for sprite.
StartedDownloads(newStyle, mapStyle) ==
  {field \in RootFields : FieldChanged(newStyle, mapStyle, field)}

\* downloadGlyphsMetadata / downloadSpriteMetadata are called for the
\* started fields and return at once.
Download(started) ==
  /\ \A field \in started : downloads[field] < MaxDownloads
  /\ downloads' = [field \in RootFields |->
                     downloads[field] + (IF field \in started THEN 1 ELSE 0)]

NoDownload == UNCHANGED downloads

\* onStyleChanged(newStyle, save) entered with the setState calls its caller
\* has already made (run).
Pipeline(run, newStyle, save, calls) ==
  LET accepted == IsAccepted(validate(newStyle))
  IN /\ CanCall
     /\ accepted => currentIdx + 1 < MaxRevisions
     /\ IF accepted /\ save THEN saveStyle(newStyle) ELSE NoSaveStyle
     /\ IF accepted
        THEN Download(StartedDownloads(newStyle, run.st.mapStyle))
        ELSE NoDownload
     /\ Finish(StyleChangedRun(run, newStyle, ~inBatch),
               IF accepted THEN RecordRevision(Store, newStyle) ELSE Store,
               Marked(calls, Len(validate(newStyle)) = 0,
                      IF accepted /\ save THEN 1 ELSE 0))

\* onStyleChanged called by the toolbar and the modals (save = true) or by
\* the style store's onLocalStyleChange (save = false).
onStyleChanged(newStyle, save) ==
  Pipeline(Begin(state), newStyle, save, AfterSubmit(newStyle, save))

\* An undo that moves the cursor and leaves this.state.mapStyle alone.
UndoPatchStale(activeStyle) == EmptyObject

\* The patch of onUndo (infos is not modelled).
UndoPatch(activeStyle) == [mapStyle |-> activeStyle]

\* A redo that clears the document instead of restoring the revision.
RedoPatchCleared(activeStyle) == [mapStyle |-> emptyStyle]

\* The patch of onRedo (infos is not modelled).
RedoPatch(activeStyle) == [mapStyle |-> activeStyle]

\* onUndo and onRedo are modelled for a store that holds a revision.
onUndo ==
  LET store == undo(Store)
      activeStyle == Current(store)
  IN /\ CanCall
     /\ Len(revisions) > 0
     /\ saveStyle(activeStyle)
     /\ NoDownload
     /\ Finish(SetState(Begin(state), UndoPatch(activeStyle), ~inBatch),
               store, Marked(AfterUndo, TRUE, 1))

onRedo ==
  LET store == redo(Store)
      activeStyle == Current(store)
  IN /\ CanCall
     /\ Len(revisions) > 0
     /\ saveStyle(activeStyle)
     /\ NoDownload
     /\ Finish(SetState(Begin(state), RedoPatch(activeStyle), ~inBatch),
               store, Marked(AfterRedo, TRUE, 1))

\* mapRenderer's onDataChange: this.fetchSources()
onDataChange ==
  /\ CanCall
  /\ NoSaveStyle
  /\ NoDownload
  /\ Finish(fetchSources(Begin(state), ~inBatch), Store,
            Marked(Called([op |-> "data"]), TRUE, 0))

\* ------------------------------------------------------ layer handlers
\* style.indexOfLayer(layers, layerId): the index of the first layer with
\* that id.  The handlers below are called with ids of layers in the list.
indexOfLayer(layers, layerId) ==
  (CHOOSE k \in 1..Len(layers) :
     /\ layers[k].id = layerId
     /\ \A j \in 1..(k - 1) : layers[j].id # layerId) - 1

\* lodash clamp(number, lower, upper): the upper bound is applied first.
clamp(number, lower, upper) ==
  LET capped == IF number <= upper THEN number ELSE upper
  IN IF capped >= lower THEN capped ELSE lower

\* arrayMove(array, previousIndex, newIndex) of react-sortable-hoc:
\* array.splice(newIndex, 0, array.splice(previousIndex, 1)[0])
arrayMove(array, previousIndex, newIndex) ==
  InsertAt(RemoveAt(array, previousIndex), newIndex, array[previousIndex + 1])

\* An early return taken only for the first position.
MoveIsNoopAtTop(oldIndex, newIndex) == oldIndex = newIndex /\ oldIndex = 0

\* if(oldIndex === newIndex) return
MoveIsNoop(oldIndex, newIndex) == oldIndex = newIndex

\* A move that never touches the selection.
MoveSelectionKept(run, oldIndex, newIndex, sync) == run

\* The setState call of onMoveLayer: the selection follows the moved layer.
MoveSelection(run, oldIndex, newIndex, sync) ==
  IF oldIndex = run.st.selectedLayerIndex
  THEN SetState(run, [selectedLayerIndex |-> newIndex], sync)
  ELSE run

\* onLayersChange(changedLayers), entered with the caller's setState calls.
onLayersChangeFrom(run, changedLayers, calls) ==
  Pipeline(run, Merge(run.st.mapStyle, [layers |-> changedLayers]), TRUE,
           calls)

onLayersChange(changedLayers, calls) ==
  onLayersChangeFrom(Begin(state), changedLayers, calls)

\* A handler call that returns without a setState call.
Returned(calls) ==
  /\ CanCall
  /\ NoSaveStyle
  /\ NoDownload
  /\ Finish(Begin(state), Store, Marked(calls, TRUE, 0))

onMoveLayer(move) ==
  LET layers == state.mapStyle.layers
      oldIndex == clamp(move.oldIndex, 0, Len(layers) - 1)
      newIndex == clamp(move.newIndex, 0, Len(layers) - 1)
      calls == Called([op |-> "move", move |-> move])
  IN IF MoveIsNoop(oldIndex, newIndex)
     THEN Returned(calls)
     ELSE onLayersChangeFrom(
            MoveSelection(Begin(state), oldIndex, newIndex, ~inBatch),
            arrayMove(layers, oldIndex, newIndex), calls)

\* remainingLayers of onLayerDestroy
DestroyedLayers(layers, layerId) ==
  RemoveAt(layers, indexOfLayer(layers, layerId))

onLayerDestroy(layerId) ==
  /\ layerId \in LayerIds(state.mapStyle.layers)
  /\ onLayersChange(DestroyedLayers(state.mapStyle.layers, layerId),
                    Called([op |-> "destroy", layerId |-> layerId]))

\* clonedLayer of onLayerCopy
ClonedLayer(layer) == [layer EXCEPT !.id = layer.id \o "-copy"]

\* changedLayers of onLayerCopy
CopiedLayers(layers, layerId) ==
  LET idx == indexOfLayer(layers, layerId)
  IN InsertAt(layers, idx, ClonedLayer(layers[idx + 1]))

onLayerCopy(layerId) ==
  /\ layerId \in LayerIds(state.mapStyle.layers)
  /\ Len(state.mapStyle.layers) < MaxLayers
  /\ Len(layerId \o "-copy") <= MaxIdLen
  /\ onLayersChange(CopiedLayers(state.mapStyle.layers, layerId),
                    Called([op |-> "copy", layerId |-> layerId]))

\* A toggle that only ever hides.
ToggledVisibilityHidden(changedLayout) == "none"

\* changedLayout.visibility === 'none' ? 'visible' : 'none'
ToggledVisibility(changedLayout) ==
  IF "visibility" \in DOMAIN changedLayout /\ changedLayout.visibility = "none"
  THEN "visible"
  ELSE "none"

\* The layer onLayerVisibilityToggle puts in place of the original.
ToggledLayer(layer) ==
  LET changedLayout == IF "layout" \in DOMAIN layer THEN layer.layout
                       ELSE EmptyObject
  IN Merge(layer, [layout |-> Merge(changedLayout,
                     [visibility |-> ToggledVisibility(changedLayout)])])

ToggledLayers(layers, layerId) ==
  LET idx == indexOfLayer(layers, layerId)
  IN ReplaceAt(layers, idx, ToggledLayer(layers[idx + 1]))

onLayerVisibilityToggle(layerId) ==
  /\ layerId \in LayerIds(state.mapStyle.layers)
  /\ onLayersChange(
       ToggledLayers(state.mapStyle.layers, layerId),
       AfterToggle(layerId,
                   state.mapStyle.layers[
                     indexOfLayer(state.mapStyle.layers, layerId) + 1]))

RenamedLayers(layers, oldId, newId) ==
  LET idx == indexOfLayer(layers, oldId)
  IN ReplaceAt(layers, idx, Merge(layers[idx + 1], [id |-> newId]))

onLayerIdChange(oldId, newId) ==
  /\ oldId \in LayerIds(state.mapStyle.layers)
  /\ onLayersChange(RenamedLayers(state.mapStyle.layers, oldId, newId),
                    Called([op |-> "rename", oldId |-> oldId,
                            newId |-> newId]))

ChangedLayers(layers, layer) ==
  ReplaceAt(layers, indexOfLayer(layers, layer.id), layer)

onLayerChanged(layer) ==
  /\ layer.id \in LayerIds(state.mapStyle.layers)
  /\ onLayersChange(ChangedLayers(state.mapStyle.layers, layer),
                    Called([op |-> "replace", layer |-> layer]))

onLayerSelect(layerId) ==
  /\ layerId \in LayerIds(state.mapStyle.layers)
  /\ CanCall
  /\ NoSaveStyle
  /\ NoDownload
  /\ Finish(SetState(Begin(state),
                     [selectedLayerIndex |->
                        indexOfLayer(state.mapStyle.layers, layerId)],
                     ~inBatch),
            Store, Marked(Called([op |-> "select", layerId |-> layerId]),
                          TRUE, 0))

\* ------------------------------------------------------------ keyboard
\* keyCodes of the constructor
keyCodes ==
  [name \in {"esc", "?", "o", "e", "s", "d", "i", "m"} |->
     CASE name = "esc" -> 27
       [] name = "?" -> 191
       [] name = "o" -> 79
       [] name = "e" -> 69
       [] name = "s" -> 83
       [] name = "d" -> 68
       [] name = "i" -> 73
       [] name = "m" -> 77]

\* shortcuts of the constructor: the bare-key table, in its order.  A
\* handler is named by the method it calls.
shortcuts ==
  <<[keyCode |-> keyCodes["?"],
     handler |-> [call |-> "toggleModal", modalName |-> "shortcuts"]],
    [keyCode |-> keyCodes["o"],
     handler |-> [call |-> "toggleModal", modalName |-> "open"]],
    [keyCode |-> keyCodes["e"],
     handler |-> [call |-> "toggleModal", modalName |-> "export"]],
    [keyCode |-> keyCodes["d"],
     handler |-> [call |-> "toggleModal", modalName |-> "sources"]],
    [keyCode |-> keyCodes["s"],
     handler |-> [call |-> "toggleModal", modalName |-> "settings"]],
    [keyCode |-> keyCodes["i"],
     handler |-> [call |-> "changeInspectMode"]],
    [keyCode |-> keyCodes["m"],
     handler |-> [call |-> "focus"]]>>

\* shortcuts.find(shortcut => shortcut.keyCode === e.keyCode): the first
\* entry with the key code, as a list of at most one entry.
FindShortcut(keyCode) ==
  LET hits == {k \in 1..Len(shortcuts) : shortcuts[k].keyCode = keyCode}
  IN IF hits = {} THEN <<>>
     ELSE <<shortcuts[CHOOSE k \in hits : \A j \in hits : k <= j]>>

\* A listener that looks the key up whatever has the focus.
BodyHasFocusAlways(activeElement) == TRUE

\* document.activeElement === document.body
BodyHasFocus(activeElement) == activeElement = "body"

\* The handlers the keyup listener calls for the event.
FiredShortcuts(e, activeElement) ==
  IF e.keyCode = keyCodes["esc"] THEN <<>>
  ELSE IF BodyHasFocus(activeElement)
       THEN [k \in 1..Len(FindShortcut(e.keyCode)) |->
               FindShortcut(e.keyCode)[k].handler]
       ELSE <<>>

\* The patch of toggleModal(modalName)
ToggledModal(st, modalName) ==
  [isOpen |-> Merge(st.isOpen,
                    [name \in {modalName} |-> ~st.isOpen[modalName]])]

\* The patch of changeInspectMode
ChangedInspectMode(st) == [inspectModeEnabled |-> ~st.inspectModeEnabled]

\* The setState calls of a shortcut handler.
ShortcutRun(run, handler, sync) ==
  CASE handler.call = "toggleModal" ->
         SetState(run, ToggledModal(run.st, handler.modalName), sync)
    [] handler.call = "changeInspectMode" ->
         SetState(run, ChangedInspectMode(run.st), sync)
    [] OTHER -> run

RECURSIVE ShortcutRuns(_, _, _)
ShortcutRuns(run, fired, sync) ==
  IF fired = <<>> THEN run
  ELSE ShortcutRuns(ShortcutRun(run, Head(fired), sync), Tail(fired), sync)

\* What has the focus after the listener: escape gives it to the body, the
\* "m" shortcut to the map canvas.
FocusAfter(e, fired, activeElement) ==
  IF e.keyCode = keyCodes["esc"] THEN "body"
  ELSE IF \E k \in 1..Len(fired) : fired[k].call = "focus" THEN "canvas"
       ELSE activeElement

\* The keyup listener of document.body.  The browser calls it outside React's
\* batched updates.
keyup(e) ==
  LET fired == FiredShortcuts(e, focus)
      run == ShortcutRuns(Begin(state), fired, TRUE)
  IN /\ ~inBatch
     /\ state' = Merge(state, run.patch)
     /\ focus' = FocusAfter(e, fired, focus)
     /\ trail' = <<[op |-> "keyup", keyCode |-> e.keyCode, fired |-> fired,
                    valid |-> TRUE, saves |-> 0]>>
     /\ UNCHANGED <<pending, inBatch, batchCalls, revisions, currentIdx,
                    saved, inFlight, issued, downloads, outcomes>>

\* handleKeyPress(e), the keydown listener of window; mac is
\* navigator.platform.toUpperCase().indexOf('MAC') >= 0.
handleKeyPress(e, mac) ==
  /\ ~inBatch
  /\ IF mac
     THEN IF e.metaKey /\ e.shiftKey /\ e.keyCode = 90 THEN onRedo
          ELSE IF e.metaKey /\ e.keyCode = 90 THEN onUndo
          ELSE Returned(Called([op |-> "keydown"]))
     ELSE IF e.ctrlKey /\ e.keyCode = 90 THEN onUndo
          ELSE IF e.ctrlKey /\ e.keyCode = 89 THEN onRedo
          ELSE Returned(Called([op |-> "keydown"]))

\* toggleModal(modalName) called by a modal's onOpenToggle or the toolbar.
toggleModal(modalName) ==
  /\ CanCall
  /\ NoSaveStyle
  /\ NoDownload
  /\ Finish(SetState(Begin(state), ToggledModal(state, modalName), ~inBatch),
            Store, Marked(Called([op |-> "modal"]), TRUE, 0))

\* The user puts the focus in an input element of the page.
focusInput ==
  /\ ~inBatch
  /\ focus # "input"
  /\ focus' = "input"
  /\ UNCHANGED <<state, pending, inBatch, batchCalls, revisions, currentIdx,
                 saved, inFlight, issued, trail, downloads, outcomes>>

\* ------------------------------------------------- fetch completions
JsonBodies ==
  {[vector_layers |-> <<[id |-> "roads"], [id |-> "water"]>>],
   [name |-> "tiles"]}

\* A merge that puts each name in front of the list (unshift for push).
PushedLayersInFront(layers, json) ==
  [k \in 1..Len(json.vector_layers) |->
     json.vector_layers[Len(json.vector_layers) + 1 - k].id] \o layers

\* for(let layer of json.vector_layers) sources[key].layers.push(layer.id)
PushedLayers(layers, json) ==
  layers \o [k \in 1..Len(json.vector_layers) |-> json.vector_layers[k].id]

\* The second .then of the fetch: the state it sets, for a body that has
\* vector_layers.
MergedSources(sources, key, json) ==
  [sources EXCEPT ![key].layers = PushedLayers(sources[key].layers, json)]

Settle(key) ==
  /\ ~inBatch
  /\ inFlight[key] > 0
  /\ inFlight' = [inFlight EXCEPT ![key] = inFlight[key] - 1]
  /\ UNCHANGED <<pending, inBatch, batchCalls, revisions, currentIdx, saved,
                 issued, trail, downloads, focus>>

\* The fetch for key resolves with a JSON body.
fetchResolved(key, json) ==
  /\ Settle(key)
  /\ IF "vector_layers" \in DOMAIN json /\ key \in DOMAIN state.sources
     THEN /\ state' = Merge(state, [sources |->
                                     MergedSources(state.sources, key, json)])
          /\ outcomes' =
               [outcomes EXCEPT ![key] =
                  outcomes[key] \cup
                    (IF key \in DOMAIN state.mapStyle.sources
                     THEN {"merged"} ELSE {"merged", "stale"})]
     ELSE /\ state' = state
          /\ outcomes' = [outcomes EXCEPT ![key] = outcomes[key] \cup {"empty"}]

\* The fetch for key fails, or its body is not JSON: the .catch logs.
fetchFailed(key) ==
  /\ Settle(key)
  /\ state' = state
  /\ outcomes' = [outcomes EXCEPT ![key] = outcomes[key] \cup {"empty"}]

\* ------------------------------------------------ metadata downloads
\* What a metadata download hands to its callback: the font names of the
\* glyph server, the icon names of the sprite.
MetadataResults(field) ==
  IF field = "glyphs" THEN {<<"Noto Sans Regular", "Open Sans Bold">>}
  ELSE {<<"bus">>}

\* A callback that starts again from the schema the component was built with.
SpecPatchFromLatest(spec, field, values) ==
  [spec |-> updateRootSpec(latest, field, values)]

\* The patch of the download callbacks:
\* {spec: updateRootSpec(this.state.spec, 'glyphs', fonts)}
SpecPatch(spec, field, values) ==
  [spec |-> updateRootSpec(spec, field, values)]

DownloadSettles(field) ==
  /\ ~inBatch
  /\ downloads[field] > 0
  /\ downloads' = [downloads EXCEPT ![field] = downloads[field] - 1]
  /\ UNCHANGED <<pending, inBatch, batchCalls, revisions, currentIdx, saved,
                 inFlight, issued, trail, focus, outcomes>>

\* A download completes and its callback runs (outside batched updates).
downloadCompleted(field, values) ==
  /\ DownloadSettles(field)
  /\ state' = Merge(state, SpecPatch(state.spec, field, values))

\* A download fails: it is logged and the callback is not run.
downloadFailed(field) ==
  /\ DownloadSettles(field)
  /\ state' = state

\* ------------------------------------------------------------ batches
\* React starts dispatching an event: setState calls are deferred.
beginBatch ==
  /\ ~inBatch
  /\ inBatch' = TRUE
  /\ batchCalls' = 0
  /\ UNCHANGED <<state, pending, revisions, currentIdx, saved, inFlight,
                 issued, trail, downloads, focus, outcomes>>

\* The dispatch ends: the pending patch replaces the fields it names.
endBatch ==
  /\ inBatch
  /\ state' = Merge(state, pending)
  /\ pending' = EmptyObject
  /\ inBatch' = FALSE
  /\ batchCalls' = 0
  /\ UNCHANGED <<revisions, currentIdx, saved, inFlight, issued, trail,
                 downloads, focus, outcomes>>

\* --------------------------------------------------------------- Init
Init ==
  /\ state = [errors |-> <<>>, mapStyle |-> emptyStyle,
              selectedLayerIndex |-> 0, sources |-> EmptyObject,
              inspectModeEnabled |-> FALSE, spec |-> latest,
              isOpen |-> [settings |-> FALSE, sources |-> FALSE,
                          open |-> FALSE, shortcuts |-> FALSE,
                          export |-> FALSE, survey |-> TRUE]]
  /\ pending = EmptyObject
  /\ inBatch = FALSE
  /\ batchCalls = 0
  /\ revisions = <<>>
  /\ currentIdx = -1
  /\ saved = NoSave
  /\ inFlight = [key \in SourceKeys |-> 0]
  /\ issued = [key \in SourceKeys |-> 0]
  /\ trail = <<>>
  /\ downloads = [field \in RootFields |-> 0]
  /\ focus = "body"
  /\ outcomes = [key \in SourceKeys |-> {}]

\* ------------------------------------------------ inputs and Next
\* Documents handed to onStyleChanged from outside the layer handlers.
StyleAB == [version |-> 8, sources |-> SourcesOne,
            layers |-> <<PlainLayer("A"), PlainLayer("B")>>]
StyleA == [version |-> 8, sources |-> SourcesTwo,
           layers |-> <<PlainLayer("A")>>]
StyleOld == [version |-> 7, sources |-> SourcesNone,
             layers |-> <<PlainLayer("A")>>]
Candidates == {StyleAB, StyleA, StyleOld}

\* The calls of onStyleChanged: by the toolbar and the modals with the
\* default save = true, by onLocalStyleChange with save = false.
Submissions ==
  {[newStyle |-> StyleAB, save |-> TRUE],
   [newStyle |-> StyleA, save |-> FALSE],
   [newStyle |-> StyleOld, save |-> TRUE]}

Ids == {"A", "B"}

Completions ==
  \/ \E key \in SourceKeys, json \in JsonBodies : fetchResolved(key, json)
  \/ \E key \in SourceKeys : fetchFailed(key)

\* The pipeline, the history and the reconciler, with synchronous setState.
Next ==
  \/ \E call \in Submissions : onStyleChanged(call.newStyle, call.save)
  \/ onUndo
  \/ onRedo
  \/ \E layerId \in Ids : onLayerDestroy(layerId)
  \/ \E layerId \in Ids : onLayerSelect(layerId)
  \/ onDataChange
  \/ Completions

Spec == Init /\ [][Next]_vars

\* The pipeline, the history and the reconciler, with handlers also called
\* inside batched updates.
NextBatched ==
  \/ \E call \in Submissions : onStyleChanged(call.newStyle, call.save)
  \/ onUndo
  \/ onRedo
  \/ onDataChange
  \/ Completions
  \/ beginBatch
  \/ endBatch

SpecBatched == Init /\ [][NextBatched]_vars

\* The layer handlers, on documents whose layers have every layout shape.
StyleABC == [version |-> 8, sources |-> SourcesNone,
             layers |-> <<PlainLayer("A"), EmptyLayoutLayer("B"),
                          VisibleLayer("C")>>]
StyleBA == [version |-> 8, sources |-> SourcesNone,
            layers |-> <<HiddenLayer("B"), PlainLayer("A")>>]
LayerCandidates == {StyleABC, StyleBA}

LayerIdsUsed == {"A", "B", "C"}
NewIds == {"B", "D"}
Moves ==
  {[oldIndex |-> 0, newIndex |-> 2],
   [oldIndex |-> 1, newIndex |-> 0],
   [oldIndex |-> 1, newIndex |-> MaxLayers + 1],
   [oldIndex |-> 1, newIndex |-> 1],
   [oldIndex |-> -1, newIndex |-> 0],
   [oldIndex |-> MaxLayers, newIndex |-> MaxLayers + 1]}
EditedLayers == {HiddenLayer("A")}

NextLayers ==
  \/ \E newStyle \in LayerCandidates : onStyleChanged(newStyle, TRUE)
  \/ \E move \in Moves : onMoveLayer(move)
  \/ \E layerId \in {"C"} : onLayerDestroy(layerId)
  \/ \E layerId \in {"B"} : onLayerCopy(layerId)
  \/ \E layerId \in LayerIdsUsed : onLayerVisibilityToggle(layerId)
  \/ \E oldId \in {"A"}, newId \in NewIds : onLayerIdChange(oldId, newId)
  \/ \E layer \in EditedLayers : onLayerChanged(layer)
  \/ \E layerId \in {"B"} : onLayerSelect(layerId)

SpecLayers == Init /\ [][NextLayers]_vars

\* The reconciler on documents that gain and lose a source, with handlers
\* also called inside batched updates.
StyleBare == [version |-> 8, sources |-> SourcesNone,
              layers |-> <<PlainLayer("A")>>]

NextSources ==
  \/ \E newStyle \in {StyleAB, StyleBare} : onStyleChanged(newStyle, TRUE)
  \/ onUndo
  \/ onRedo
  \/ onDataChange
  \/ Completions
  \/ beginBatch
  \/ endBatch

SpecSources == Init /\ [][NextSources]_vars

\* The pipeline with documents that name a glyph server and a sprite, and
\* the metadata downloads they start.
GlyphsUrl == "https://x/fonts/{fontstack}/{range}.pbf?key={key}"
SpriteUrl == "https://x/sprite"
StyleFonts == [version |-> 8, sources |-> SourcesNone, layers |-> <<>>,
               glyphs |-> GlyphsUrl]
StyleBoth == [version |-> 8, sources |-> SourcesNone, layers |-> <<>>,
              glyphs |-> GlyphsUrl, sprite |-> SpriteUrl]
StyleOldFonts == [version |-> 7, sources |-> SourcesNone, layers |-> <<>>,
                  glyphs |-> GlyphsUrl]
MetadataCandidates == {StyleFonts, StyleBoth, StyleOldFonts}

NextMetadata ==
  \/ \E newStyle \in MetadataCandidates : onStyleChanged(newStyle, TRUE)
  \/ onUndo
  \/ onRedo
  \/ \E field \in RootFields :
       \E values \in MetadataResults(field) : downloadCompleted(field, values)
  \/ \E field \in RootFields : downloadFailed(field)
  \/ beginBatch
  \/ endBatch

SpecMetadata == Init /\ [][NextMetadata]_vars

\* The keyboard: key-up and key-down events of every table entry and of
\* keys outside the tables, with the focus on the body, an input or the map.
KeyUpEvents ==
  {[keyCode |-> keyCodes[name]] : name \in DOMAIN keyCodes}
    \cup {[keyCode |-> 90]}
KeyDownEvents ==
  {[keyCode |-> 90, metaKey |-> FALSE, shiftKey |-> FALSE, ctrlKey |-> TRUE],
   [keyCode |-> 89, metaKey |-> FALSE, shiftKey |-> FALSE, ctrlKey |-> TRUE],
   [keyCode |-> 90, metaKey |-> TRUE, shiftKey |-> FALSE, ctrlKey |-> FALSE],
   [keyCode |-> 90, metaKey |-> TRUE, shiftKey |-> TRUE, ctrlKey |-> FALSE],
   [keyCode |-> 90, metaKey |-> FALSE, shiftKey |-> FALSE, ctrlKey |-> FALSE]}

NextKeys ==
  \/ \E newStyle \in {StyleAB} : onStyleChanged(newStyle, TRUE)
  \/ \E e \in KeyUpEvents : keyup(e)
  \/ \E e \in KeyDownEvents, mac \in BOOLEAN : handleKeyPress(e, mac)
  \/ \E modalName \in {"survey"} : toggleModal(modalName)
  \/ focusInput

SpecKeys == Init /\ [][NextKeys]_vars

\* =============================================================== claims
\* The committed document and the selection once pending patches apply.
Layers == state.mapStyle.layers

\* An index clamped into [0, L - 1] (0 for an empty list).
ClampedIndex(i, L) == IF L <= 0 \/ i < 0 THEN 0 ELSE IF i > L - 1 THEN L - 1 ELSE i

\* The names a response body lists, in order.
LayerNames(json) ==
  [k \in 1..Len(json.vector_layers) |-> json.vector_layers[k].id]

\* C1: a submit whose candidate the validator rejects leaves the committed
\* document unchanged, appends no revision and makes no call to save.
C1_RejectedSubmitCommitsNothing ==
  [][(/\ Len(trail') = 1
      /\ trail'[1].op = "submit"
      /\ Len(validate(trail'[1].doc)) > 0
      /\ onStyleChanged(trail'[1].doc, trail'[1].save))
         => /\ state'.mapStyle = state.mapStyle
            /\ revisions' = revisions
            /\ currentIdx' = currentIdx
            /\ saved' = saved
            /\ trail'[1].saves = 0]_vars

C1_Witness ==
  /\ Len(trail) = 1
  /\ trail[1].op = "submit"
  /\ ~trail[1].valid
  /\ Len(revisions) > 0
  /\ Len(state.errors) > 0

\* C2: whenever the committed document has layers, the selected index is
\* an index of the layer list.
C2_SelectionInRange ==
  Len(Layers) > 0 =>
    (0 <= state.selectedLayerIndex /\ state.selectedLayerIndex < Len(Layers))

\* C3 as stated: redo followed by undo leaves the committed document as it
\* was before the redo, wherever the cursor stood.
C3_RedoUndoRestoresAnywhere ==
  (Len(trail) = 2 /\ trail[1].op = "redo" /\ trail[2].op = "undo")
    => Effective.mapStyle = trail[1].before

\* C3 as amended: redo followed by undo leaves the committed document as it
\* was before the redo when the cursor was not at the newest revision.
C3_RedoUndoRestoresBelowHead ==
  (Len(trail) = 2 /\ trail[1].op = "redo" /\ trail[2].op = "undo"
   /\ ~trail[1].head)
    => Effective.mapStyle = trail[1].before

C3_Witness ==
  /\ Len(trail) = 2
  /\ trail[1].op = "redo"
  /\ trail[2].op = "undo"
  /\ ~trail[1].head
  /\ ~inBatch
  /\ state.mapStyle = trail[1].before
  /\ currentIdx + 2 <= Len(revisions)
  /\ revisions[currentIdx + 2] # state.mapStyle

\* C4: an accepted submit of N makes N the head revision and drops the
\* redo-forward history: the store's cursor is at the head and holds N, a
\* redo called next leaves the committed document N, and an undo called next
\* restores the revision the cursor was at when N was submitted.
C4_SubmitPrunesRedoHistory ==
  /\ (Len(trail) >= 1 /\ trail[1].op = "submit" /\ trail[1].valid
      /\ Len(trail) = 1)
       => /\ currentIdx = Len(revisions) - 1
          /\ currentIdx >= 0
          /\ Current(Store) = trail[1].doc
          /\ Effective.mapStyle = trail[1].doc
          /\ (trail[1].cursor # NoRevision =>
                /\ currentIdx >= 1
                /\ revisions[currentIdx] = trail[1].cursor)
  /\ (Len(trail) = 2 /\ trail[1].op = "submit" /\ trail[2].op = "redo")
       => Effective.mapStyle = trail[1].doc
  /\ (Len(trail) = 2 /\ trail[1].op = "submit" /\ trail[2].op = "undo"
      /\ trail[1].cursor # NoRevision)
       => Effective.mapStyle = trail[1].cursor

C4_Witness ==
  /\ Len(trail) = 2
  /\ trail[1].op = "submit"
  /\ ~trail[1].head
  /\ trail[2].op = "redo"
  /\ ~inBatch
  /\ state.mapStyle = trail[1].doc
  /\ trail[1].doc # trail[1].cursor

\* C5: a move whose clamped indices are equal changes nothing: the layer
\* sequence, the selection, the history and the persisted document stay as
\* they are and no fetch is issued.
C5_EqualMoveIsNoop ==
  [][(/\ Len(trail') = 1
      /\ trail'[1].op = "move"
      /\ ClampedIndex(trail'[1].move.oldIndex, Len(Layers))
           = ClampedIndex(trail'[1].move.newIndex, Len(Layers))
      /\ onMoveLayer(trail'[1].move))
         => /\ UNCHANGED <<state, pending, revisions, currentIdx, saved,
                           inFlight, issued>>
            /\ trail'[1].saves = 0]_vars

C5_Witness ==
  /\ Len(trail) = 1
  /\ trail[1].op = "move"
  /\ trail[1].move = [oldIndex |-> MaxLayers, newIndex |-> MaxLayers + 1]
  /\ Len(Layers) = 3
  /\ Len(revisions) = 1

\* C6: a move with distinct clamped indices takes the layer at oldIndex out
\* and puts it back at newIndex, the others keeping their order; the
\* selection becomes newIndex when it was oldIndex and keeps its number
\* otherwise.  [A,B,C] with selection 1 and move(0,2) gives [B,C,A] with
\* selection 1.
C6_MoveReordersAndFollowsSelection ==
  [][(Len(trail') = 1 /\ trail'[1].op = "move") =>
       LET move == trail'[1].move
           L == Len(Layers)
           old == ClampedIndex(move.oldIndex, L)
           new == ClampedIndex(move.newIndex, L)
       IN (old # new /\ onMoveLayer(move))
            => /\ Len(state'.mapStyle.layers) = L
               /\ state'.mapStyle.layers[new + 1] = Layers[old + 1]
               /\ RemoveAt(state'.mapStyle.layers, new) = RemoveAt(Layers, old)
               /\ state'.selectedLayerIndex =
                    (IF old = state.selectedLayerIndex THEN new
                     ELSE state.selectedLayerIndex)
               /\ (/\ Layers = StyleABC.layers
                   /\ state.selectedLayerIndex = 1
                   /\ old = 0
                   /\ new = 2)
                    => /\ state'.mapStyle.layers =
                            <<StyleABC.layers[2], StyleABC.layers[3],
                              StyleABC.layers[1]>>
                       /\ state'.selectedLayerIndex = 1]_vars

C6_Witness ==
  /\ Len(trail) = 1
  /\ trail[1].op = "move"
  /\ trail[1].move = [oldIndex |-> 0, newIndex |-> 2]
  /\ Layers = <<StyleABC.layers[2], StyleABC.layers[3], StyleABC.layers[1]>>
  /\ state.selectedLayerIndex = 1
  /\ Len(revisions) = 2

\* C7: copying layer X of a list without an X-copy gives a list one longer
\* in which the clone X-copy stands right after X and the other layers are
\* as they were.
C7_CopyInsertedAfterOriginal ==
  [][(Len(trail') = 1 /\ trail'[1].op = "copy") =>
       LET layerId == trail'[1].layerId
       IN (/\ (layerId \o "-copy") \notin LayerIds(Layers)
           /\ onLayerCopy(layerId))
         => LET idx == indexOfLayer(Layers, layerId)
            IN /\ Len(state'.mapStyle.layers) = Len(Layers) + 1
               /\ state'.mapStyle.layers[idx + 1] = Layers[idx + 1]
               /\ state'.mapStyle.layers[idx + 2].id = layerId \o "-copy"
               /\ RemoveAt(state'.mapStyle.layers, idx + 1) = Layers]_vars

\* C8 as stated: two toggles of the same layer in a row give back a layer
\* equal to the original, whatever its layout.
C8_DoubleToggleRestoresAnyLayer ==
  (Len(trail) = 2 /\ trail[1].op = "toggle" /\ trail[2].op = "toggle")
    => \E k \in 1..Len(Effective.mapStyle.layers) :
         Effective.mapStyle.layers[k] = trail[1].layer

HasVisibilityFlag(layer) ==
  "layout" \in DOMAIN layer /\ "visibility" \in DOMAIN layer.layout

\* C8 as amended: two toggles of the same layer in a row give back a layer
\* equal to the original when its layout carries a visibility flag, and the
\* original with layout.visibility = "visible" added when it does not.
C8_DoubleToggleRestoresFlaggedLayer ==
  (Len(trail) = 2 /\ trail[1].op = "toggle" /\ trail[2].op = "toggle")
    => LET original == trail[1].layer
           k == indexOfLayer(Effective.mapStyle.layers, trail[1].layerId) + 1
       IN IF HasVisibilityFlag(original)
          THEN Effective.mapStyle.layers[k] = original
          ELSE Effective.mapStyle.layers[k] =
                 Merge(original,
                       [layout |-> Merge(IF "layout" \in DOMAIN original
                                         THEN original.layout
                                         ELSE EmptyObject,
                                         [visibility |-> "visible"])])

C8_Witness ==
  /\ Len(trail) = 2
  /\ trail[1].op = "toggle"
  /\ trail[2].op = "toggle"
  /\ trail[1].layer = VisibleLayer("C")
  /\ Layers[3] = VisibleLayer("C")
  /\ Len(revisions) = 3

\* C9: a reconcile that finds a vector source with a url missing from the
\* known sources gives it the descriptor {type, layers: []} at once, and
\* when the only fetch issued for a key resolves with a body that lists
\* vector layers, the descriptor's layers are exactly the listed names.
C9_PendingThenResolved ==
  [][/\ \A key \in SourceKeys :
          (/\ onDataChange
           /\ key \in DOMAIN state.mapStyle.sources
           /\ key \notin DOMAIN state.sources
           /\ state.mapStyle.sources[key].type = "vector"
           /\ "url" \in DOMAIN state.mapStyle.sources[key])
            => /\ key \in DOMAIN Effective'.sources
               /\ Effective'.sources[key] = [type |-> "vector", layers |-> <<>>]
     /\ \A key \in SourceKeys, json \in JsonBodies :
          (/\ fetchResolved(key, json)
           /\ "vector_layers" \in DOMAIN json
           /\ issued[key] = 1)
            => state'.sources[key].layers = LayerNames(json)]_vars

C9_Witness ==
  /\ issued["s1"] = 1
  /\ inFlight["s1"] = 0
  /\ "s1" \in DOMAIN state.sources
  /\ state.sources["s1"] = [type |-> "vector", layers |-> <<"roads", "water">>]

\* C10 as stated: a reconcile called for a vector source key while no fetch
\* result for the key has landed issues a fetch, also when another reconcile
\* has been called for the key before.
C10_EveryEarlyReconcileFetches ==
  [][\A key \in SourceKeys :
       (/\ onDataChange
        /\ key \in DOMAIN state.mapStyle.sources
        /\ state.mapStyle.sources[key].type = "vector"
        /\ "url" \in DOMAIN state.mapStyle.sources[key]
        /\ issued[key] <= 1
        /\ inFlight[key] = issued[key])
         => issued'[key] = issued[key] + 1]_vars

\* C10 as amended: a reconcile called for a vector source key issues a fetch
\* exactly when the key is missing from this.state.sources as the call
\* reads it; two calls of one batched update both read it missing and both
\* fetch, a call that reads the pending descriptor does not; in both cases
\* the known sources hold the one descriptor {type, layers: []} for the key
\* until a result lands.
C10_ReconcileFetchesWhileKeyUnapplied ==
  [][\A key \in SourceKeys :
       (/\ onDataChange
        /\ key \in DOMAIN state.mapStyle.sources
        /\ state.mapStyle.sources[key].type = "vector"
        /\ "url" \in DOMAIN state.mapStyle.sources[key])
         => /\ IF key \in DOMAIN state.sources
               THEN issued'[key] = issued[key]
               ELSE issued'[key] = issued[key] + 1
            /\ key \in DOMAIN Effective'.sources
            /\ (inFlight'[key] = issued'[key]) =>
                  Effective'.sources[key] = [type |-> "vector", layers |-> <<>>]]_vars

C10_Witness ==
  /\ issued["s1"] = 2
  /\ inFlight["s1"] = 2
  /\ ~inBatch
  /\ Len(trail) = 1
  /\ trail[1].op = "data"
  /\ "s1" \in DOMAIN state.sources
  /\ state.sources["s1"] = [type |-> "vector", layers |-> <<>>]

\* The number of toggles a step makes: modal flags and inspect mode.
ToggleCount ==
  Cardinality({name \in DOMAIN state.isOpen :
                 state'.isOpen[name] # state.isOpen[name]})
    + (IF state'.inspectModeEnabled # state.inspectModeEnabled THEN 1 ELSE 0)

\* C11: a key event fires at most one action: a key-up makes at most one
\* toggle, or gives the map the focus and toggles nothing; a key-down moves
\* the history cursor by at most one step, as one undo or one redo does.  A
\* key-up of escape, or of any key while the body does not have the focus,
\* calls no handler of the bare-key table, toggles no modal and not the
\* inspect mode, and does not give the map the focus.
C11_KeyEventFiresAtMostOneGatedAction ==
  [][/\ (/\ Len(trail') = 1
         /\ trail'[1].op = "keyup"
         /\ keyup([keyCode |-> trail'[1].keyCode]))
          => /\ Len(trail'[1].fired) <= 1
             /\ ToggleCount <= 1
             /\ (focus' = "canvas" /\ focus # "canvas") => ToggleCount = 0
             /\ (trail'[1].keyCode = 27 \/ focus # "body")
                  => /\ trail'[1].fired = <<>>
                     /\ ToggleCount = 0
                     /\ focus' = (IF trail'[1].keyCode = 27 THEN "body"
                                  ELSE focus)
     /\ (/\ Len(trail') >= 1
         /\ trail'[Len(trail')].op \in {"undo", "redo", "keydown"}
         /\ \E e \in KeyDownEvents, mac \in BOOLEAN : handleKeyPress(e, mac))
            => /\ revisions' = revisions
               /\ currentIdx' - currentIdx \in {-1, 0, 1}
               /\ ToggleCount = 0
               /\ focus' = focus]_vars

C11_Witness ==
  /\ Len(trail) = 1
  /\ trail[1].op = "keyup"
  /\ trail[1].keyCode = 79
  /\ trail[1].fired = <<>>
  /\ focus = "input"
  /\ ~state.isOpen["open"]
  /\ state.isOpen["shortcuts"]
  /\ state.inspectModeEnabled

\* C12: when the last of the fetches in flight for a source key resolves
\* with a body that lists vector layers, the key's layers are exactly the
\* names of that body: names of earlier responses for the key are neither
\* kept nor repeated.
C12_LastResponseWins ==
  [][\A key \in SourceKeys, json \in JsonBodies :
       (/\ fetchResolved(key, json)
        /\ "vector_layers" \in DOMAIN json
        /\ issued[key] > 1
        /\ inFlight'[key] = 0)
         => state'.sources[key].layers = LayerNames(json)]_vars

\* The premise of C13: the validator's verdict on the candidate of a layer
\* move.  The candidate is the committed document with its layers in another
\* order, and the committed document has passed the validator: no move is
\* ever rejected.
C13_MoveCandidateIsAccepted ==
  [][(/\ Len(trail') = 1
      /\ trail'[1].op = "move"
      /\ onMoveLayer(trail'[1].move))
        => trail'[1].valid]_vars

\* C14: undo and redo leave the revision sequence as it is and only move
\* the cursor; the sequence changes only in an accepted submit; undo at the
\* oldest revision and redo at the newest leave the cursor and the committed
\* document unchanged.
C14_UndoRedoOnlyMoveCursor ==
  [][/\ (onUndo \/ onRedo)
          => /\ revisions' = revisions
             /\ currentIdx' - currentIdx \in {-1, 0, 1}
     /\ (revisions' # revisions)
          => /\ Len(trail') = 1
             /\ trail'[1].op = "submit"
             /\ trail'[1].valid
     /\ (onUndo /\ currentIdx = 0)
          => /\ currentIdx' = currentIdx
             /\ Effective'.mapStyle = Effective.mapStyle
     /\ (onRedo /\ currentIdx = Len(revisions) - 1)
          => /\ currentIdx' = currentIdx
             /\ Effective'.mapStyle = Effective.mapStyle]_vars

C14_Witness ==
  /\ Len(trail) = 1
  /\ trail[1].op = "redo"
  /\ trail[1].head
  /\ ~inBatch
  /\ Len(revisions) >= 2
  /\ currentIdx = Len(revisions) - 1
  /\ state.mapStyle = trail[1].before
  /\ revisions[1] # revisions[2]

\* C15: the reconcile an accepted submit ends with reads the sources of the
\* document just committed: once the submit's state updates are applied,
\* every source key the new document declares is a key of the known sources.
C15_CommitReconcilesNewDocument ==
  [][(/\ Len(trail') = 1
      /\ trail'[1].op = "submit"
      /\ trail'[1].valid
      /\ onStyleChanged(trail'[1].doc, trail'[1].save))
        => (DOMAIN trail'[1].doc.sources) \subseteq (DOMAIN Effective'.sources)]_vars

\* A list ends with the names of a response body.
EndsWithNames(layers, json) ==
  /\ Len(layers) >= Len(json.vector_layers)
  /\ SubSeq(layers, Len(layers) - Len(json.vector_layers) + 1, Len(layers))
       = LayerNames(json)

\* C16: no step removes a key from the known sources, neither from
\* this.state.sources nor from what it becomes once pending updates apply,
\* also when the committed document stops declaring the source; and a
\* fetch that resolves with vector layers for a key the document no longer
\* declares still merges the names into the key's descriptor.
C16_KnownSourcesOnlyGrow ==
  [][/\ (DOMAIN state.sources) \subseteq (DOMAIN state'.sources)
     /\ (DOMAIN Effective.sources) \subseteq (DOMAIN Effective'.sources)
     /\ \A key \in SourceKeys, json \in JsonBodies :
          (/\ fetchResolved(key, json)
           /\ "vector_layers" \in DOMAIN json
           /\ key \notin DOMAIN state.mapStyle.sources)
            => /\ key \in DOMAIN state'.sources
               /\ EndsWithNames(state'.sources[key].layers, json)
               /\ "stale" \in outcomes'[key]]_vars

C16_Witness ==
  /\ "stale" \in outcomes["s1"]
  /\ "s1" \notin DOMAIN state.mapStyle.sources
  /\ "s1" \in DOMAIN state.sources
  /\ state.sources["s1"].layers = <<"roads", "water">>
  /\ inFlight["s1"] = 0

\* What C17 says of every step about the keys this.state.sources holds: no
\* fetch is issued for such a key, only a fetch completion changes its
\* descriptor, and a reconcile that finds every source key of the document
\* known issues no fetch and makes no setState call.
KnownKeysAreSettled ==
  /\ \A key \in SourceKeys :
       key \in DOMAIN state.sources
         => /\ issued'[key] = issued[key]
            /\ key \in DOMAIN state'.sources
            /\ (inFlight'[key] = inFlight[key])
                 => state'.sources[key] = state.sources[key]
  /\ (/\ onDataChange
      /\ (DOMAIN state.mapStyle.sources) \subseteq (DOMAIN state.sources))
       => /\ state' = state
          /\ pending' = pending
          /\ issued' = issued

\* C17 as stated: once a key is in the known sources no reconcile fetches
\* it or changes its descriptor, a reconcile that finds every key known
\* changes nothing, and a key one of whose fetches failed or brought a body
\* without vector_layers has layers = [] from then on.
C17_FailedKeyStaysEmpty ==
  [][/\ KnownKeysAreSettled
     /\ \A key \in SourceKeys :
          "empty" \in outcomes'[key]
            => (key \in DOMAIN state'.sources
                  => state'.sources[key].layers = <<>>)]_vars

\* C17 as amended: the same, with the last part for a key none of whose
\* fetches is in flight any more: when its layers are [] then, they are []
\* from then on and no fetch is issued for it again.
C17_SettledKeyStaysEmpty ==
  [][/\ KnownKeysAreSettled
     /\ \A key \in SourceKeys :
          (/\ key \in DOMAIN state.sources
           /\ inFlight[key] = 0
           /\ state.sources[key].layers = <<>>)
            => /\ state'.sources[key].layers = <<>>
               /\ inFlight'[key] = 0
               /\ issued'[key] = issued[key]]_vars

C17_Witness ==
  /\ inBatch
  /\ batchCalls = 1
  /\ Len(trail) = 1
  /\ trail[1].op = "data"
  /\ "sources" \notin DOMAIN pending
  /\ outcomes["s1"] = {"empty"}
  /\ issued["s1"] = 2
  /\ inFlight["s1"] = 0
  /\ "s1" \in DOMAIN state.mapStyle.sources
  /\ state.sources["s1"] = [type |-> "vector", layers |-> <<>>]

\* A document's field as a list: empty when the document lacks the field.
FieldOf(doc, field) == IF field \in DOMAIN doc THEN <<doc[field]>> ELSE <<>>

C19_DocumentIsCursorRevision ==
  Len(revisions) > 0
    => /\ 0 <= currentIdx
       /\ currentIdx < Len(revisions)
       /\ Effective.mapStyle = revisions[currentIdx + 1]
       /\ (~inBatch) => state.mapStyle = revisions[currentIdx + 1]

C19_Witness ==
  /\ ~inBatch
  /\ Len(revisions) = 3
  /\ currentIdx = 1
  /\ state.mapStyle = revisions[2]
  /\ revisions[2] # revisions[3]
  /\ revisions[2] # revisions[1]
  /\ Len(state.errors) > 0
  /\ Len(trail) = 1
  /\ trail[1].op = "submit"
  /\ ~trail[1].valid

\* C20: an accepted submit with save = true, an undo and a redo each leave
\* the document last handed to the store's save equal to the committed
\* document; undo and redo save the revision the store returns, change
\* neither the error list nor the revision sequence; an accepted submit
\* with save = false is committed and recorded in the history and leaves
\* the saved document as it was.
C20_SavedFollowsCommitted ==
  [][/\ (/\ Len(trail') = 1
         /\ trail'[1].op = "submit"
         /\ trail'[1].valid
         /\ onStyleChanged(trail'[1].doc, trail'[1].save))
          => /\ Effective'.mapStyle = trail'[1].doc
             /\ revisions'[currentIdx' + 1] = trail'[1].doc
             /\ currentIdx' = currentIdx + 1
             /\ IF trail'[1].save
                THEN saved' = Effective'.mapStyle /\ trail'[1].saves = 1
                ELSE saved' = saved /\ trail'[1].saves = 0
     /\ (onUndo \/ onRedo)
          => /\ saved' = Effective'.mapStyle
             /\ saved' = revisions'[currentIdx' + 1]
             /\ revisions' = revisions
             /\ Effective'.errors = Effective.errors]_vars

C20_Witness ==
  /\ ~inBatch
  /\ Len(trail) = 1
  /\ trail[1].op = "submit"
  /\ trail[1].valid
  /\ ~trail[1].save
  /\ state.mapStyle = trail[1].doc
  /\ revisions[currentIdx + 1] = trail[1].doc
  /\ saved # NoSave
  /\ saved # state.mapStyle
  /\ saved = trail[1].before

====
